---- MODULE Spec2Model ----
(***************************************************************************)
(* Playwright MCP orchestrator: instance registry (DockerManager), session *)
(* client pool (PlaywrightOrchestrator.clientCache + PlaywrightClientStdio)*)
(* and the facade tool handlers.                                           *)
(*                                                                         *)
(* Sources.  The facade follows src/src/index.ts (list_instances,          *)
(* list_tools, call_tool, check_health) extended with the new_browser and  *)
(* stop_browser handlers of src/unnamed/part_003.  The session client is   *)
(* PlaywrightClientStdio (second half of src/src/utils/config.ts).  The    *)
(* DockerManager is the one of src/src/services/docker-manager.ts, with    *)
(* createContainer / container start taken from the revision that has the  *)
(* docker-CLI fallback (src/unnamed/part_006).                             *)
(*                                                                         *)
(* src/src/index.ts registers four tools; SpecFacade is that facade alone. *)
(* The shutdown closure is setupGracefulShutdown of src/src/index.ts.      *)
(*                                                                         *)
(* Every handler is an async function of a single-threaded event loop: one *)
(* action is the code that runs between two await points.  A request slot  *)
(* r holds one handler invocation and its local variables.                 *)
(***************************************************************************)
EXTENDS Integers, Sequences, FiniteSets, TLC

\* ------------------------------------------------------------------ bounds
\* number of instance ids (randomUUID results) ever issued in a run
MaxIds == 2
\* number of containers the provisioner ever creates in a run
MaxCtrs == 2
\* number of PlaywrightClientStdio objects ever constructed in a run
MaxClients == 2
\* number of MCP Client/transport pairs ever constructed in a run
MaxConns == 2
\* readiness-loop iterations that fit into containerStartupTimeoutMs
MaxProbes == 2
\* config.maxInstances (MAX_INSTANCES), the configured capacity cap
maxInstances == 1
MaxSessions == 2

\* the facade requests that can be in progress at the same time
Reqs == {"r1", "r2"}
\* the handler invocations: the facade requests and the shutdown closure
Slots == Reqs \cup {"shutdown", "http"}
Ids == 1 .. MaxIds
Ctrs == 1 .. MaxCtrs
ClientRefs == 1 .. MaxClients
ConnRefs == 1 .. MaxConns

\* an instance id argument that no randomUUID() call ever returned
FakeId == 0
\* the null reference (undefined / null) of every reference field
Null == 0

Pages == {"A", "B"}
Blank == "about:blank"
Tools == {"navigate", "read"}

VARIABLES
  instances,     \* DockerManager.instances: the key set of the Map
  status,        \* InstanceInfo.status of the object with id i ("none": not created)
  containerId,   \* InstanceInfo.containerId of the object with id i
  nextId,        \* index of the next randomUUID() result
  containers,    \* engine state of the containers the provisioner created
  nextCtr,       \* index of the next container the engine creates
  clients,       \* heap of PlaywrightClientStdio objects
  nextClient,    \* index of the next PlaywrightClientStdio constructed
  clientCache,   \* PlaywrightOrchestrator.clientCache: instance id -> client ref
  conns,         \* heap of MCP Client + StdioClientTransport pairs
  nextConn,      \* index of the next MCP Client constructed
  lastNavigated, \* history: page of the last navigate a call_tool carried out on i
  req,           \* slots: handler invocations (requests, shutdown) and their locals
  reply          \* the response a handler returned in the step just taken

vars == <<instances, status, containerId, nextId, containers, nextCtr,
          clients, nextClient, clientCache, conns, nextConn, lastNavigated,
          req, reply>>

registryVars == <<instances, status, containerId, nextId>>
engineVars == <<containers, nextCtr>>
poolVars == <<clients, nextClient, clientCache, conns, nextConn>>

\* ------------------------------------------------------------ result values
NoRes == [shape |-> "none", ok |-> FALSE, msg |-> <<>>, id |-> 0,
          status |-> "none", data |-> "none", list |-> {}]

\* JSON.stringify({success: true, ...}) wrapped in content[0].text
JsonOk(i, st, d, l) == [shape |-> "json", ok |-> TRUE, msg |-> <<>>, id |-> i,
                        status |-> st, data |-> d, list |-> l]

\* JSON.stringify({success: false, error}) with isError: true
JsonErr(m) == [shape |-> "json", ok |-> FALSE, msg |-> m, id |-> 0,
               status |-> "none", data |-> "none", list |-> {}]

\* call_tool's catch: plain text `Error calling tool '<tool>': <message>`, isError: true
TextErr(m) == [shape |-> "text", ok |-> FALSE, msg |-> <<"Error calling tool">> \o m,
               id |-> 0, status |-> "none", data |-> "none", list |-> {}]

\* a CallToolResult produced by the sandbox itself (isError = ~ok)
SandboxResult(good, d) == [shape |-> "raw", ok |-> good, msg |-> <<>>, id |-> 0,
                           status |-> "none", data |-> d, list |-> {}]

Contains(m, s) == \E k \in 1 .. Len(m) : m[k] = s

IdleReq == [op |-> "none", id |-> 0, hasId |-> FALSE, tool |-> "none", arg |-> "none",
            pc |-> "idle", inst |-> 0, client |-> 0, conn |-> 0, ctr |-> 0,
            probes |-> 0, stops |-> {}, sessions |-> {}, made |-> 0]

NoReply == [op |-> "none", id |-> 0, hasId |-> FALSE, tool |-> "none", arg |-> "none",
            inst |-> 0, resp |-> NoRes, res |-> NoRes]

NoClient == [inst |-> 0, mcpClient |-> 0, transport |-> 0, isConnected |-> FALSE]
NoConn == [state |-> "none", owner |-> 0, via |-> "none", url |-> Blank]

Init ==
  /\ instances = {}
  /\ status = [i \in Ids |-> "none"]
  /\ containerId = [i \in Ids |-> 0]
  /\ nextId = 1
  /\ containers = [c \in Ctrs |-> "none"]
  /\ nextCtr = 1
  /\ clients = [c \in ClientRefs |-> NoClient]
  /\ nextClient = 1
  /\ clientCache = [i \in Ids |-> Null]
  /\ conns = [c \in ConnRefs |-> NoConn]
  /\ nextConn = 1
  /\ lastNavigated = [i \in Ids |-> Blank]
  /\ req = [r \in Slots |-> IdleReq]
  /\ reply = NoReply

\* ------------------------------------------------------------ slot helpers
\* the handler of slot r, invoked as q, returns result; answer is what the
\* sandbox had answered to it, if anything
Returns(r, q, answer, result) ==
  /\ req' = [req EXCEPT ![r] = IdleReq]
  /\ reply' = [op |-> q.op, id |-> q.id, hasId |-> q.hasId, tool |-> q.tool,
               arg |-> q.arg, inst |-> q.inst, resp |-> answer, res |-> result]

\* the handler of slot r suspends at an await as q
Suspends(r, q) ==
  /\ req' = [req EXCEPT ![r] = q]
  /\ reply' = NoReply

Begin(o, i, h, t, a) ==
  [IdleReq EXCEPT !.op = o, !.id = i, !.hasId = h, !.tool = t, !.arg = a]

\* instance ids a caller can have learnt from an earlier response, or invent
KnownIds == (1 .. (nextId - 1)) \cup {FakeId}

\* a lookup that hands out an entry for every id
getInstanceUnchecked(i) == IF i \in Ids THEN i ELSE Null

\* DockerManager.getInstance: this.instances.get(instanceId)
getInstance(i) == IF i \in instances THEN i ELSE Null

\* a listing of every instance ever registered
getAllInstancesEver == {<<i, status[i]>> : i \in 1 .. (nextId - 1)}

\* DockerManager.getAllInstances: Array.from(this.instances.values())
getAllInstances == {<<i, status[i]>> : i \in instances}

\* the guard with > in place of >=
AtCapacityOffByOne == Cardinality(instances) > maxInstances

\* ------------------------------------------------- DockerManager: create
\* createPlaywrightInstance's guard: this.instances.size >= config.maxInstances
AtCapacity == Cardinality(instances) >= maxInstances

\* new_browser, or list_tools without instanceId: the handler enters
\* createPlaywrightInstance, which throws at once when the registry is full
\* and otherwise suspends in pullImageIfNeeded
CreateBegin(r, o) ==
  /\ req[r].pc = "idle"
  /\ o \in {"new_browser", "list_tools"}
  /\ LET q == Begin(o, 0, FALSE, "none", "none") IN
       IF AtCapacity
       THEN Returns(r, q, NoRes, JsonErr(<<"Maximum instances limit reached">>))
       ELSE Suspends(r, [q EXCEPT !.pc = "c_pull"])
  /\ UNCHANGED <<registryVars, engineVars, poolVars, lastNavigated>>

\* the catch of createPlaywrightInstance rethrows, the handler's catch reports
CreateFailed(cause) == JsonErr(<<"Failed to create container", cause>>)

\* pullImageIfNeeded: the image is present or the pull succeeds
PullOk(r) ==
  /\ req[r].pc = "c_pull"
  /\ Suspends(r, [req[r] EXCEPT !.pc = "c_create"])
  /\ UNCHANGED <<registryVars, engineVars, poolVars, lastNavigated>>

\* pullImageIfNeeded: inspect and pull both fail
PullFail(r) ==
  /\ req[r].pc = "c_pull"
  /\ Returns(r, req[r], NoRes, CreateFailed("pull failed"))
  /\ UNCHANGED <<registryVars, engineVars, poolVars, lastNavigated>>

\* createContainer, primary path: docker.createContainer succeeds
CreateContainerOk(r) ==
  /\ req[r].pc = "c_create"
  /\ nextCtr <= MaxCtrs
  /\ containers' = [containers EXCEPT ![nextCtr] = "created"]
  /\ nextCtr' = nextCtr + 1
  /\ Suspends(r, [req[r] EXCEPT !.pc = "c_start", !.ctr = nextCtr])
  /\ UNCHANGED <<registryVars, poolVars, lastNavigated>>

\* createContainer, primary path fails: the catch spawns `docker run -d`
CreateContainerFail(r) ==
  /\ req[r].pc = "c_create"
  /\ Suspends(r, [req[r] EXCEPT !.pc = "c_fallback"])
  /\ UNCHANGED <<registryVars, engineVars, poolVars, lastNavigated>>

\* createContainer, fallback: `docker run -d` exits 0, the container is running
FallbackOk(r) ==
  /\ req[r].pc = "c_fallback"
  /\ nextCtr <= MaxCtrs
  /\ containers' = [containers EXCEPT ![nextCtr] = "running"]
  /\ nextCtr' = nextCtr + 1
  /\ Suspends(r, [req[r] EXCEPT !.pc = "c_start", !.ctr = nextCtr])
  /\ UNCHANGED <<registryVars, poolVars, lastNavigated>>

\* a createContainer that starts over with the primary path when the fallback failed
FallbackFailRetry(r) ==
  /\ req[r].pc = "c_fallback"
  /\ Suspends(r, [req[r] EXCEPT !.pc = "c_create"])
  /\ UNCHANGED <<registryVars, engineVars, poolVars, lastNavigated>>

\* createContainer, fallback fails too: the original error is thrown
FallbackFail(r) ==
  /\ req[r].pc = "c_fallback"
  /\ Returns(r, req[r], NoRes, CreateFailed("createContainer failed"))
  /\ UNCHANGED <<registryVars, engineVars, poolVars, lastNavigated>>

\* `await container.start()` rejects where its error is not caught on the
\* spot: the catch of createPlaywrightInstance rethrows, and the container
\* that createContainer returned stays as it is
StartFail(r) ==
  /\ req[r].pc = "c_start"
  /\ Returns(r, req[r], NoRes, CreateFailed("start failed"))
  /\ UNCHANGED <<registryVars, engineVars, poolVars, lastNavigated>>

\* a create whose instance ids come from a pool of released ids
StartAndRegisterRecycling(r, started) ==
  /\ req[r].pc = "c_start"
  /\ nextId <= MaxIds
  /\ started => containers[req[r].ctr] = "created"
  /\ containers' = IF started THEN [containers EXCEPT ![req[r].ctr] = "running"]
                   ELSE containers
  /\ LET id == CHOOSE i \in Ids : i \notin instances /\ \A j \in Ids \ instances : i <= j IN
       /\ instances' = instances \cup {id}
       /\ status' = [status EXCEPT ![id] = "starting"]
       /\ containerId' = [containerId EXCEPT ![id] = req[r].ctr]
       /\ nextId' = IF id = nextId THEN nextId + 1 ELSE nextId
       /\ Suspends(r, [req[r] EXCEPT !.pc = "c_probe", !.inst = id, !.probes = 1])
  /\ UNCHANGED <<nextCtr, poolVars, lastNavigated>>

\* container.start() returns (started: it succeeded; otherwise its error was
\* swallowed); then the instance is built with a fresh id, registered as
\* "starting", and waitForContainerReady issues its first health probe
StartAndRegister(r, started) ==
  /\ req[r].pc = "c_start"
  /\ nextId <= MaxIds
  /\ started => containers[req[r].ctr] = "created"
  /\ containers' = IF started THEN [containers EXCEPT ![req[r].ctr] = "running"]
                   ELSE containers
  /\ instances' = instances \cup {nextId}
  /\ status' = [status EXCEPT ![nextId] = "starting"]
  /\ containerId' = [containerId EXCEPT ![nextId] = req[r].ctr]
  /\ nextId' = nextId + 1
  /\ Suspends(r, [req[r] EXCEPT !.pc = "c_probe", !.inst = nextId, !.probes = 1])
  /\ UNCHANGED <<nextCtr, poolVars, lastNavigated>>

\* a readiness loop that starts its deadline anew with every probe
ProbeRetryNoDeadline(r) ==
  /\ req[r].pc \in {"c_probe", "c_wait"}
  /\ Suspends(r, [req[r] EXCEPT !.probes = IF @ < MaxProbes THEN @ + 1 ELSE 1,
                                !.pc = IF getInstance(req[r].inst) = Null
                                       THEN "c_wait" ELSE "c_probe"])
  /\ UNCHANGED <<registryVars, engineVars, poolVars, lastNavigated>>

\* the readiness loop after a probe that was not "healthy": sleep(1000), the
\* deadline has not passed, getContainerHealth again; it answers "unknown"
\* without a fetch when the id has left the registry
ProbeRetry(r) ==
  /\ req[r].pc \in {"c_probe", "c_wait"}
  /\ req[r].probes < MaxProbes
  /\ Suspends(r, [req[r] EXCEPT !.probes = @ + 1,
                                !.pc = IF getInstance(req[r].inst) = Null
                                       THEN "c_wait" ELSE "c_probe"])
  /\ UNCHANGED <<registryVars, engineVars, poolVars, lastNavigated>>

\* a catch that deletes the record of the instance that did not become ready
ProbeTimeoutDestroying(r) ==
  /\ req[r].pc \in {"c_probe", "c_wait"}
  /\ instances' = instances \ {req[r].inst}
  /\ Returns(r, req[r], NoRes, CreateFailed("Container failed to become healthy"))
  /\ UNCHANGED <<status, containerId, nextId, engineVars, poolVars, lastNavigated>>

\* the deadline has passed: waitForContainerReady throws; the registry entry
\* stays as it is
ProbeTimeout(r) ==
  /\ req[r].pc \in {"c_probe", "c_wait"}
  /\ Returns(r, req[r], NoRes, CreateFailed("Container failed to become healthy"))
  /\ UNCHANGED <<registryVars, engineVars, poolVars, lastNavigated>>

\* ensureConnection without its early return
NeedsConnectAlways(c) == TRUE

\* ------------------------------------------ PlaywrightClientStdio (stdio)
\* ensureConnection's early return is taken unless this holds
NeedsConnect(c) == ~(c.isConnected /\ c.mcpClient # Null)

\* ensureConnection up to `await this.mcpClient.connect(this.transport)`: a new
\* StdioClientTransport (`docker run -i --rm --init <image>`) and a new Client
\* replace the fields of client c
Connecting(c, old) ==
  [old EXCEPT ![c].transport = nextConn, ![c].mcpClient = nextConn]

NewConn(c, v) == [state |-> "connecting", owner |-> c, via |-> v, url |-> Blank]

\* the sandbox a connection talks to: the container its own transport launched
ConnTarget(k) == <<"docker run", k>>

\* the sandbox the provisioner created and registered for instance i
InstanceSandbox(i) == <<"container", containerId[i]>>

\* list_tools: `new PlaywrightClientStdio(instance)` followed by
\* client.listTools(), which suspends in ensureConnection
ListToolsConnect(r, q, i) ==
  /\ nextClient <= MaxClients
  /\ nextConn <= MaxConns
  /\ clients' = Connecting(nextClient, [clients EXCEPT ![nextClient] = [NoClient EXCEPT !.inst = i]])
  /\ nextClient' = nextClient + 1
  /\ conns' = [conns EXCEPT ![nextConn] = NewConn(nextClient, "list_tools")]
  /\ nextConn' = nextConn + 1
  /\ Suspends(r, [q EXCEPT !.pc = "lt_connecting", !.inst = i,
                              !.client = nextClient, !.conn = nextConn,
                              !.ctr = 0, !.probes = 0])
  /\ UNCHANGED clientCache

\* a create that promotes the instance without a healthy probe
NewBrowserReadyUnprobed(r) ==
  /\ req[r].pc \in {"c_probe", "c_wait"}
  /\ req[r].op = "new_browser"
  /\ status' = [status EXCEPT ![req[r].inst] = "running"]
  /\ Returns(r, req[r], NoRes, JsonOk(req[r].inst, "running", "none", {}))
  /\ UNCHANGED <<instances, containerId, nextId, engineVars, poolVars, lastNavigated>>

\* a probe answers "healthy": waitForContainerReady returns, the status
\* becomes "running" and new_browser reports the instance
NewBrowserReady(r) ==
  /\ req[r].pc = "c_probe"
  /\ req[r].op = "new_browser"
  /\ containers[req[r].ctr] = "running"
  /\ status' = [status EXCEPT ![req[r].inst] = "running"]
  /\ Returns(r, req[r], NoRes, JsonOk(req[r].inst, "running", "none", {}))
  /\ UNCHANGED <<instances, containerId, nextId, engineVars, poolVars, lastNavigated>>

\* an auto-provisioning list_tools that leaves the status as it is
ListToolsProvisionedUnmarked(r) ==
  /\ req[r].pc = "c_probe"
  /\ req[r].op = "list_tools"
  /\ containers[req[r].ctr] = "running"
  /\ ListToolsConnect(r, req[r], req[r].inst)
  /\ UNCHANGED <<registryVars, engineVars, lastNavigated>>

\* the same for list_tools without instanceId, which goes on to list the tools
ListToolsProvisioned(r) ==
  /\ req[r].pc = "c_probe"
  /\ req[r].op = "list_tools"
  /\ containers[req[r].ctr] = "running"
  /\ status' = [status EXCEPT ![req[r].inst] = "running"]
  /\ ListToolsConnect(r, req[r], req[r].inst)
  /\ UNCHANGED <<instances, containerId, nextId, engineVars, lastNavigated>>

\* ---------------------------------------------------- facade: list_tools
ListToolsStart(r, i) ==
  /\ req[r].pc = "idle"
  /\ i \in KnownIds
  /\ LET q == Begin("list_tools", i, TRUE, "none", "none") IN
       IF getInstance(i) = Null
       THEN /\ Returns(r, q, NoRes, JsonErr(<<"Instance not found">>))
            /\ UNCHANGED poolVars
       ELSE ListToolsConnect(r, q, i)
  /\ UNCHANGED <<registryVars, engineVars, lastNavigated>>

\* connect() resolves: isConnected = true, then mcpClient.listTools() is sent
ListToolsConnected(r) ==
  /\ req[r].pc = "lt_connecting"
  /\ conns' = [conns EXCEPT ![req[r].conn].state = "open"]
  /\ clients' = [clients EXCEPT ![req[r].client].isConnected = TRUE]
  /\ Suspends(r, [req[r] EXCEPT !.pc = "lt_listing"])
  /\ UNCHANGED <<registryVars, engineVars, nextClient, clientCache, nextConn, lastNavigated>>

\* connect() rejects: ensureConnection throws "Failed to connect"
ListToolsConnectFail(r) ==
  /\ req[r].pc = "lt_connecting"
  /\ conns' = [conns EXCEPT ![req[r].conn].state = "failed"]
  /\ Returns(r, req[r], NoRes, JsonErr(<<"Failed to connect">>))
  /\ UNCHANGED <<registryVars, engineVars, clients, nextClient, clientCache, nextConn, lastNavigated>>

\* tools/list answered: {success: true, instanceId, tools, count}
ListToolsOk(r) ==
  /\ req[r].pc = "lt_listing"
  /\ Returns(r, req[r], NoRes, JsonOk(req[r].inst, "none", "tools", {}))
  /\ UNCHANGED <<registryVars, engineVars, poolVars, lastNavigated>>

\* tools/list rejected or timed out
ListToolsFail(r) ==
  /\ req[r].pc = "lt_listing"
  /\ Returns(r, req[r], NoRes, JsonErr(<<"Failed to list tools">>))
  /\ UNCHANGED <<registryVars, engineVars, poolVars, lastNavigated>>

\* ----------------------------------------------------- facade: call_tool
ToolArgs(t) == IF t = "navigate" THEN Pages ELSE {"none"}

\* a handler that never finds a cached client
CacheLookupMiss(i) == Null

\* this.clientCache.get(instanceId)
CacheLookup(i) == clientCache[i]

\* call_tool up to its first suspension: registry lookup, get-or-create of the
\* cached client, client.callTool() entering ensureConnection
CallToolStart(r, i, t, a) ==
  /\ req[r].pc = "idle"
  /\ i \in KnownIds
  /\ t \in Tools
  /\ a \in ToolArgs(t)
  /\ LET q == Begin("call_tool", i, TRUE, t, a) IN
       IF getInstance(i) = Null
       THEN /\ Returns(r, q, NoRes, TextErr(<<"Instance not found">>))
            /\ UNCHANGED poolVars
       ELSE LET cached == CacheLookup(i)
                cl == IF cached = Null THEN nextClient ELSE cached
                cs == IF cached = Null
                      THEN [clients EXCEPT ![nextClient] = [NoClient EXCEPT !.inst = i]]
                      ELSE clients
            IN /\ cached = Null => nextClient <= MaxClients
               /\ nextClient' = IF cached = Null THEN nextClient + 1 ELSE nextClient
               /\ clientCache' = [clientCache EXCEPT ![i] = cl]
               /\ IF NeedsConnect(cs[cl])
                  THEN /\ nextConn <= MaxConns
                       /\ clients' = Connecting(cl, cs)
                       /\ conns' = [conns EXCEPT ![nextConn] = NewConn(cl, "call_tool")]
                       /\ nextConn' = nextConn + 1
                       /\ Suspends(r, [q EXCEPT !.pc = "ct_connecting", !.inst = i,
                                            !.client = cl, !.conn = nextConn])
                  ELSE /\ clients' = cs
                       /\ UNCHANGED <<conns, nextConn>>
                       /\ Suspends(r, [q EXCEPT !.pc = "ct_ensured", !.inst = i, !.client = cl])
  /\ UNCHANGED <<registryVars, engineVars, lastNavigated>>

\* connect() resolves: this.isConnected = true, ensureConnection returns
CallToolConnected(r) ==
  /\ req[r].pc = "ct_connecting"
  /\ conns' = [conns EXCEPT ![req[r].conn].state = "open"]
  /\ clients' = [clients EXCEPT ![req[r].client].isConnected = TRUE]
  /\ Suspends(r, [req[r] EXCEPT !.pc = "ct_ensured", !.conn = 0])
  /\ UNCHANGED <<registryVars, engineVars, nextClient, clientCache, nextConn, lastNavigated>>

\* connect() rejects: ensureConnection throws, call_tool's catch reports
CallToolConnectFail(r) ==
  /\ req[r].pc = "ct_connecting"
  /\ conns' = [conns EXCEPT ![req[r].conn].state = "failed"]
  /\ Returns(r, req[r], NoRes, TextErr(<<"Failed to connect">>))
  /\ UNCHANGED <<registryVars, engineVars, clients, nextClient, clientCache, nextConn, lastNavigated>>

\* callTool after `await this.ensureConnection()`: the null check, then
\* tools/call is sent on whatever this.mcpClient holds now
CallToolDispatch(r) ==
  /\ req[r].pc = "ct_ensured"
  /\ IF clients[req[r].client].mcpClient = Null
     THEN Returns(r, req[r], NoRes, TextErr(<<"MCP client not initialized">>))
     ELSE Suspends(r, [req[r] EXCEPT !.pc = "ct_calling", !.conn = clients[req[r].client].mcpClient])
  /\ UNCHANGED <<registryVars, engineVars, poolVars, lastNavigated>>

\* what the sandbox session behind connection k answers to a tool call
SandboxAnswer(k, t, a, good) ==
  IF ~good THEN SandboxResult(FALSE, "tool error")
  ELSE IF t = "navigate" THEN SandboxResult(TRUE, a)
  ELSE SandboxResult(TRUE, conns[k].url)

\* the sandbox session's page after the tool call took effect
SandboxEffect(k, t, a, good) ==
  IF good /\ t = "navigate" THEN a ELSE conns[k].url

\* a handler that wraps the sandbox result into a {success, result} object
ProxiedWrapped(result) == JsonOk(0, "none", result.data, {})

\* call_tool's return value for a result that client.callTool resolved with
Proxied(result) == result

\* the sandbox answers (a result, or its own isError result): call_tool returns
CallToolResponse(r, good) ==
  /\ req[r].pc = "ct_calling"
  /\ LET k == req[r].conn
         q == req[r]
         answer == SandboxAnswer(k, q.tool, q.arg, good)
     IN /\ conns[k].state \in {"connecting", "open"}
        /\ conns' = [conns EXCEPT ![k].url = SandboxEffect(k, q.tool, q.arg, good)]
        /\ lastNavigated' = IF good /\ q.tool = "navigate"
                            THEN [lastNavigated EXCEPT ![q.inst] = q.arg]
                            ELSE lastNavigated
        /\ Returns(r, q, answer, Proxied(answer))
  /\ UNCHANGED <<registryVars, engineVars, clients, nextClient, clientCache, nextConn>>

\* a catch that drops the cached client of the instance whose call failed
EvictedAfterFailedCall(i) == [clientCache EXCEPT ![i] = Null]

\* the client cache after call_tool's catch ran for a call on instance i: the
\* catch only logs and builds the error result
AfterFailedCall(i) == clientCache

\* mcpClient.callTool rejects (request timeout, transport error, not
\* connected); acted: the sandbox had carried the request out all the same
CallToolThrow(r, acted) ==
  /\ req[r].pc = "ct_calling"
  /\ LET k == req[r].conn
         q == req[r]
     IN /\ acted => conns[k].state \in {"connecting", "open"} /\ q.tool = "navigate"
        /\ conns' = [conns EXCEPT ![k].url = SandboxEffect(k, q.tool, q.arg, acted)]
        /\ lastNavigated' = IF acted THEN [lastNavigated EXCEPT ![q.inst] = q.arg]
                            ELSE lastNavigated
        /\ clientCache' = AfterFailedCall(q.inst)
        /\ Returns(r, q, NoRes, TextErr(<<"Failed to call tool">>))
  /\ UNCHANGED <<registryVars, engineVars, clients, nextClient, nextConn>>

\* the sandbox process behind an established connection dies (the `docker
\* run` child exits): the transport is closed from the other side
ConnDies(k) ==
  /\ k \in ConnRefs
  /\ conns[k].state = "open"
  /\ conns' = [conns EXCEPT ![k].state = "dead"]
  /\ reply' = NoReply
  /\ UNCHANGED <<registryVars, engineVars, clients, nextClient, clientCache, nextConn,
                 lastNavigated, req>>

\* -------------------------------------- DockerManager: stop; stop_browser
\* stopInstance up to `await container.stop({t: 10})`
StopStart(r, i) ==
  /\ req[r].pc = "idle"
  /\ i \in KnownIds
  /\ LET q == Begin("stop_browser", i, TRUE, "none", "none") IN
       IF getInstance(i) = Null
       THEN /\ Returns(r, q, NoRes, JsonErr(<<"Instance not found">>))
            /\ UNCHANGED status
       ELSE /\ status' = [status EXCEPT ![i] = "stopping"]
            /\ Suspends(r, [q EXCEPT !.pc = "st_stopping", !.inst = i])
  /\ UNCHANGED <<instances, containerId, nextId, engineVars, poolVars, lastNavigated>>

\* a stopInstance that forgets this.instances.delete
RemovedNever(i) == instances

\* what stopInstance does to the registry once the engine has stopped the container
Removed(i) == instances \ {i}

\* the engine stopped the container: status "stopped" and the entry is deleted
StopOk(r) ==
  /\ req[r].pc = "st_stopping"
  /\ LET i == req[r].inst IN
       /\ containers[containerId[i]] = "running"
       /\ containers' = [containers EXCEPT ![containerId[i]] = "stopped"]
       /\ status' = [status EXCEPT ![i] = "stopped"]
       /\ instances' = Removed(i)
       /\ Returns(r, req[r], NoRes, JsonOk(i, "stopped", "Stopped instance", {}))
  /\ UNCHANGED <<containerId, nextId, nextCtr, poolVars, lastNavigated>>

\* a catch that drops the entry of the instance it could not stop
StopFailRemoving(r) ==
  /\ req[r].pc = "st_stopping"
  /\ status' = [status EXCEPT ![req[r].inst] = "error"]
  /\ instances' = instances \ {req[r].inst}
  /\ Returns(r, req[r], NoRes, JsonErr(<<"Failed to stop container">>))
  /\ UNCHANGED <<containerId, nextId, engineVars, poolVars, lastNavigated>>

\* container.stop rejects: status "error", the error is rethrown
StopFail(r) ==
  /\ req[r].pc = "st_stopping"
  /\ status' = [status EXCEPT ![req[r].inst] = "error"]
  /\ Returns(r, req[r], NoRes, JsonErr(<<"Failed to stop container">>))
  /\ UNCHANGED <<instances, containerId, nextId, engineVars, poolVars, lastNavigated>>

\* -------------------------------------------------- facade: check_health
HealthStart(r, i) ==
  /\ req[r].pc = "idle"
  /\ i \in KnownIds
  /\ LET q == Begin("check_health", i, TRUE, "none", "none") IN
       IF getInstance(i) = Null
       THEN Returns(r, q, NoRes, JsonErr(<<"Instance not found">>))
       ELSE Suspends(r, [q EXCEPT !.pc = "ch_probe", !.inst = i])
  /\ UNCHANGED <<registryVars, engineVars, poolVars, lastNavigated>>

\* a health probe that drops the cached clients it finds
HealthResultEvicting(r, h) ==
  /\ req[r].pc = "ch_probe"
  /\ h \in {"healthy", "unhealthy"}
  /\ h = "healthy" => containers[containerId[req[r].inst]] = "running"
  /\ clientCache' = [i \in Ids |-> Null]
  /\ Returns(r, req[r], NoRes, JsonOk(req[r].inst, status[req[r].inst], h, {}))
  /\ UNCHANGED <<registryVars, engineVars, clients, nextClient, conns, nextConn, lastNavigated>>

\* getContainerHealth's fetch settles; the handler reports it with instance.status
HealthResult(r, h) ==
  /\ req[r].pc = "ch_probe"
  /\ h \in {"healthy", "unhealthy"}
  /\ h = "healthy" => containers[containerId[req[r].inst]] = "running"
  /\ Returns(r, req[r], NoRes, JsonOk(req[r].inst, status[req[r].inst], h, {}))
  /\ UNCHANGED <<registryVars, engineVars, poolVars, lastNavigated>>

\* ------------------------------------------------ facade: list_instances
ListInstances(r) ==
  /\ req[r].pc = "idle"
  /\ Returns(r, Begin("list_instances", 0, FALSE, "none", "none"), NoRes,
             JsonOk(Cardinality(getAllInstances), "none", "none", getAllInstances))
  /\ UNCHANGED <<registryVars, engineVars, poolVars, lastNavigated>>

\* ------------------------------------------------------ facade: shutdown
Signals == {"SIGINT", "SIGTERM", "uncaughtException", "unhandledRejection"}

\* a flag that shutdown never sets
isShuttingDownUnset == FALSE

\* PlaywrightOrchestrator.isShuttingDown
isShuttingDown == req["shutdown"].pc # "idle"

\* process.exit has been called: no handler runs any more
Exited == req["shutdown"].pc \in {"exit0", "exit1"}

Min(S) == CHOOSE x \in S : \A y \in S : x <= y

\* a shutdown loop that finds nothing to disconnect
ToDisconnectNone(p) == {}

\* the entries of clientCache that come after client p in Map order (insertion
\* order, which is construction order) and whose disconnect() has an
\* mcpClient to close; for the others disconnect() returns without suspending
ToDisconnect(p) ==
  {c \in ClientRefs : /\ c > p
                       /\ \E i \in Ids : clientCache[i] = c
                       /\ clients[c].mcpClient # Null}

\* DockerManager.cleanup up to `await Promise.allSettled`: stopInstance is
\* entered for every registered id and sets its status to "stopping"; with
\* nothing registered the registry is cleared and server.close() is awaited
CleanupStart(q) ==
  /\ status' = [i \in Ids |-> IF i \in instances THEN "stopping" ELSE status[i]]
  /\ Suspends("shutdown", [q EXCEPT !.pc = IF instances = {} THEN "sd_closing" ELSE "sd_cleanup",
                                     !.client = 0, !.conn = 0, !.stops = instances])
  /\ UNCHANGED instances

\* the shutdown loop over clientCache.entries() from Map position p up to the
\* next suspension: `await this.mcpClient.close()` of the next connected
\* client, or, past the last entry, clientCache.clear() and cleanup()
ShutdownLoop(p) ==
  LET q == [req["shutdown"] EXCEPT !.op = "shutdown"] IN
    IF ToDisconnect(p) # {}
    THEN LET c == Min(ToDisconnect(p)) IN
           /\ Suspends("shutdown", [q EXCEPT !.pc = "sd_disconnecting", !.client = c,
                                              !.conn = clients[c].mcpClient])
           /\ UNCHANGED <<clientCache, instances, status>>
    ELSE /\ clientCache' = [i \in Ids |-> Null]
         /\ CleanupStart(q)

\* a signal or an uncaught error arrives: shutdown(signal) runs once
ShutdownBegin(signal) ==
  /\ signal \in Signals
  /\ ~isShuttingDown
  /\ ShutdownLoop(0)
  /\ UNCHANGED <<containerId, nextId, engineVars, clients, nextClient, conns, nextConn,
                 lastNavigated>>

\* a disconnect() that resets the fields only when close() resolved
ShutdownDisconnectedKeeping(closed) ==
  /\ req["shutdown"].pc = "sd_disconnecting"
  /\ LET c == req["shutdown"].client
         k == req["shutdown"].conn
     IN /\ conns' = IF closed THEN [conns EXCEPT ![k].state = "closed"] ELSE conns
        /\ clients' = IF closed
                      THEN [clients EXCEPT ![c].mcpClient = Null, ![c].transport = Null,
                                           ![c].isConnected = FALSE]
                      ELSE clients
        /\ ShutdownLoop(c)
  /\ UNCHANGED <<containerId, nextId, engineVars, nextClient, nextConn, lastNavigated>>

\* a further signal or uncaught error while shutdown is under way:
\* `if (this.isShuttingDown) return;`
ShutdownIgnored(signal) ==
  /\ signal \in Signals
  /\ isShuttingDown
  /\ ~Exited
  /\ reply' = [NoReply EXCEPT !.op = "shutdown"]
  /\ UNCHANGED <<registryVars, engineVars, poolVars, lastNavigated, req>>

\* disconnect(): mcpClient.close() settles (closed: it resolved; otherwise its
\* error is logged), the client's fields are reset and the loop goes on
ShutdownDisconnected(closed) ==
  /\ req["shutdown"].pc = "sd_disconnecting"
  /\ LET c == req["shutdown"].client
         k == req["shutdown"].conn
     IN /\ conns' = IF closed THEN [conns EXCEPT ![k].state = "closed"] ELSE conns
        /\ clients' = [clients EXCEPT ![c].mcpClient = Null, ![c].transport = Null,
                                       ![c].isConnected = FALSE]
        /\ ShutdownLoop(c)
  /\ UNCHANGED <<containerId, nextId, engineVars, nextClient, nextConn, lastNavigated>>

\* a cleanup that returns without this.instances.clear()
CleanupSettledUncleared(i, stopped) ==
  /\ req["shutdown"].pc = "sd_cleanup"
  /\ i \in req["shutdown"].stops
  /\ stopped => containers[containerId[i]] = "running"
  /\ containers' = IF stopped THEN [containers EXCEPT ![containerId[i]] = "stopped"]
                   ELSE containers
  /\ status' = [status EXCEPT ![i] = IF stopped THEN "stopped" ELSE "error"]
  /\ LET last == req["shutdown"].stops = {i} IN
       /\ instances' = IF stopped THEN Removed(i) ELSE instances
       /\ Suspends("shutdown", [req["shutdown"] EXCEPT !.stops = @ \ {i},
                                      !.pc = IF last THEN "sd_closing" ELSE "sd_cleanup"])
  /\ UNCHANGED <<containerId, nextId, nextCtr, poolVars, lastNavigated>>

\* cleanup(): the stopInstance(i) it issued settles (stopInstance's own try and
\* catch); after the last one Promise.allSettled resolves, this.instances is
\* cleared and server.close() is awaited
CleanupSettled(i, stopped) ==
  /\ req["shutdown"].pc = "sd_cleanup"
  /\ i \in req["shutdown"].stops
  /\ stopped => containers[containerId[i]] = "running"
  /\ containers' = IF stopped THEN [containers EXCEPT ![containerId[i]] = "stopped"]
                   ELSE containers
  /\ status' = [status EXCEPT ![i] = IF stopped THEN "stopped" ELSE "error"]
  /\ LET last == req["shutdown"].stops = {i} IN
       /\ instances' = IF last THEN {} ELSE IF stopped THEN Removed(i) ELSE instances
       /\ Suspends("shutdown", [req["shutdown"] EXCEPT !.stops = @ \ {i},
                                      !.pc = IF last THEN "sd_closing" ELSE "sd_cleanup"])
  /\ UNCHANGED <<containerId, nextId, nextCtr, poolVars, lastNavigated>>

\* server.close() settles: process.exit(0), or process.exit(1) from the catch
ShutdownExit(closed) ==
  /\ req["shutdown"].pc = "sd_closing"
  /\ Suspends("shutdown", [req["shutdown"] EXCEPT !.pc = IF closed THEN "exit0" ELSE "exit1"])
  /\ UNCHANGED <<registryVars, engineVars, poolVars, lastNavigated>>

Shutdown ==
  \/ \E signal \in Signals : ShutdownBegin(signal)
  \/ \E signal \in Signals : ShutdownIgnored(signal)
  \/ \E closed \in BOOLEAN : ShutdownDisconnected(closed)
  \/ \E i \in Ids, stopped \in BOOLEAN : CleanupSettled(i, stopped)
  \/ \E closed \in BOOLEAN : ShutdownExit(closed)

\* -------------------------------------------------------- specifications
\* new_browser: createPlaywrightInstance(image, name)
NewBrowser(r) == CreateBegin(r, "new_browser")

\* list_tools without instanceId: createPlaywrightInstance()
AutoListTools(r) == CreateBegin(r, "list_tools")

\* createPlaywrightInstance after its entry, up to the readiness loop
Provision(r) ==
  \/ PullOk(r) \/ PullFail(r)
  \/ CreateContainerOk(r) \/ CreateContainerFail(r)
  \/ FallbackOk(r) \/ FallbackFail(r)
  \/ \E started \in BOOLEAN : StartAndRegister(r, started)
  \/ ProbeRetry(r) \/ ProbeTimeout(r)

ListToolsRest(r) ==
  \/ ListToolsConnected(r) \/ ListToolsConnectFail(r)
  \/ ListToolsOk(r) \/ ListToolsFail(r)

ListToolsById(r) == \E i \in Ids \cup {FakeId} : ListToolsStart(r, i)

CallTool(r) ==
  \E i \in Ids \cup {FakeId}, t \in Tools, a \in Pages \cup {"none"} : CallToolStart(r, i, t, a)

CallToolRest(r) ==
  \/ CallToolConnected(r) \/ CallToolConnectFail(r)
  \/ CallToolDispatch(r)
  \/ \E good \in BOOLEAN : CallToolResponse(r, good)
  \/ \E acted \in BOOLEAN : CallToolThrow(r, acted)

Stop(r) ==
  \/ \E i \in Ids \cup {FakeId} : StopStart(r, i)
  \/ StopOk(r) \/ StopFail(r)

Health(r) ==
  \/ \E i \in Ids \cup {FakeId} : HealthStart(r, i)
  \/ \E h \in {"healthy", "unhealthy"} : HealthResult(r, h)

\* the whole orchestrator, from process start until process.exit
Next ==
  \/ /\ ~Exited
     /\ \E r \in Reqs :
          \/ NewBrowser(r) \/ AutoListTools(r) \/ Provision(r) \/ StartFail(r)
          \/ NewBrowserReady(r) \/ ListToolsProvisioned(r)
          \/ ListToolsById(r) \/ ListToolsRest(r)
          \/ CallTool(r) \/ CallToolRest(r)
          \/ Stop(r) \/ Health(r) \/ ListInstances(r)
  \/ Shutdown

Spec == Init /\ [][Next]_vars

\* the instance life cycle: callers that create (new_browser), stop, probe
\* and list instances, all requests running concurrently
NextRegistry ==
  \E r \in Reqs :
    \/ NewBrowser(r) \/ Provision(r) \/ NewBrowserReady(r)
    \/ Stop(r) \/ Health(r) \/ ListInstances(r)

SpecRegistry == Init /\ [][NextRegistry]_vars

\* the state after one new_browser has succeeded: instance 1 is registered
\* and running in container 1, nothing is cached or connected yet
InitProxy ==
  /\ instances = {1}
  /\ status = [i \in Ids |-> IF i = 1 THEN "running" ELSE "none"]
  /\ containerId = [i \in Ids |-> IF i = 1 THEN 1 ELSE 0]
  /\ nextId = 2
  /\ containers = [c \in Ctrs |-> IF c = 1 THEN "running" ELSE "none"]
  /\ nextCtr = 2
  /\ clients = [c \in ClientRefs |-> NoClient]
  /\ nextClient = 1
  /\ clientCache = [i \in Ids |-> Null]
  /\ conns = [c \in ConnRefs |-> NoConn]
  /\ nextConn = 1
  /\ lastNavigated = [i \in Ids |-> Blank]
  /\ req = [r \in Slots |-> IdleReq]
  /\ reply = NoReply

\* the protocol proxy: callers that use, probe and stop a provisioned
\* instance, all requests running concurrently
NextProxy ==
  \E r \in Reqs :
    \/ ListToolsById(r) \/ ListToolsRest(r)
    \/ CallTool(r) \/ CallToolRest(r)
    \/ Stop(r) \/ Health(r) \/ ListInstances(r)

SpecProxy == InitProxy /\ [][NextProxy]_vars

\* no call_tool for instance i is in progress
NoCallInProgress(i) ==
  \A q \in Reqs : ~(req[q].op = "call_tool" /\ req[q].id = i /\ req[q].pc # "idle")

\* a caller that issues its call_tool requests for an instance one after the other
CallToolInSequence(r) ==
  \E i \in Ids \cup {FakeId}, t \in Tools, a \in Pages \cup {"none"} :
    NoCallInProgress(i) /\ CallToolStart(r, i, t, a)

\* the protocol proxy with the call_tool requests of an instance in sequence;
\* everything else still runs concurrently with them
NextSeq ==
  \E r \in Reqs :
    \/ ListToolsById(r) \/ ListToolsRest(r)
    \/ CallToolInSequence(r) \/ CallToolRest(r)
    \/ Stop(r) \/ Health(r) \/ ListInstances(r)

SpecSeq == InitProxy /\ [][NextSeq]_vars

\* a state with two provisioned instances, each running in its own container,
\* nothing cached or connected yet
InitPool ==
  /\ instances = {1, 2}
  /\ status = [i \in Ids |-> IF i \in {1, 2} THEN "running" ELSE "none"]
  /\ containerId = [i \in Ids |-> IF i \in {1, 2} THEN i ELSE 0]
  /\ nextId = 3
  /\ containers = [c \in Ctrs |-> IF c \in {1, 2} THEN "running" ELSE "none"]
  /\ nextCtr = 3
  /\ clients = [c \in ClientRefs |-> NoClient]
  /\ nextClient = 1
  /\ clientCache = [i \in Ids |-> Null]
  /\ conns = [c \in ConnRefs |-> NoConn]
  /\ nextConn = 1
  /\ lastNavigated = [i \in Ids |-> Blank]
  /\ req = [r \in Slots |-> IdleReq]
  /\ reply = NoReply

\* call_tool requests that read the page of a registered or unknown instance
CallToolRead(r) == \E i \in Ids \cup {FakeId} : CallToolStart(r, i, "read", "none")

\* shutdown of an orchestrator whose instances are in use by call_tool
\* requests; no handler runs after process.exit
NextShutdown ==
  \/ \E r \in Reqs : ~Exited /\ CallToolRead(r)
  \/ \E r \in Reqs : ~Exited /\ CallToolRest(r)
  \/ Shutdown

SpecShutdown == InitPool /\ [][NextShutdown]_vars

\* shutdown of an orchestrator that is creating instances (new_browser) and
\* has no client cached, so that the disconnect loop has nothing to await; no
\* handler runs after process.exit
NextTeardown ==
  \/ \E r \in Reqs : ~Exited /\ NewBrowser(r)
  \/ \E r \in Reqs : ~Exited /\ Provision(r)
  \/ \E r \in Reqs : ~Exited /\ NewBrowserReady(r)
  \/ \E signal \in Signals : ShutdownBegin(signal)
  \/ \E i \in Ids, stopped \in BOOLEAN : CleanupSettled(i, stopped)
  \/ \E closed \in BOOLEAN : ShutdownExit(closed)

SpecTeardown == Init /\ [][NextTeardown]_vars

\* creates whose container.start() can fail, next to stops
NextOrphan ==
  \E r \in Reqs :
    \/ NewBrowser(r) \/ Provision(r) \/ StartFail(r) \/ NewBrowserReady(r)
    \/ Stop(r)

SpecOrphan == Init /\ [][NextOrphan]_vars

\* a createPlaywrightInstance whose engine calls succeed
ProvisionOk(r) ==
  \/ PullOk(r) \/ CreateContainerOk(r)
  \/ \E started \in BOOLEAN : StartAndRegister(r, started)
  \/ ProbeTimeout(r)

\* the registry under creates, stops and the cleanup of a shutdown, all
\* interleaved; no handler runs after process.exit
NextLifecycle ==
  \/ \E r \in Reqs : ~Exited /\ NewBrowser(r)
  \/ \E r \in Reqs : ~Exited /\ ProvisionOk(r)
  \/ \E r \in Reqs : ~Exited /\ NewBrowserReady(r)
  \/ \E r \in Reqs : ~Exited /\ Stop(r)
  \/ \E signal \in Signals : ShutdownBegin(signal)
  \/ \E i \in Ids, stopped \in BOOLEAN : CleanupSettled(i, stopped)
  \/ \E closed \in BOOLEAN : ShutdownExit(closed)

SpecLifecycle == Init /\ [][NextLifecycle]_vars

\* ------------------------------------------- startHttp: the /mcp handler
\* values of the mcp-session-id header: absent; an id that a transport
\* generated; an id that no transport generated; a name that every object
\* inherits ("constructor", "toString", "__proto__")
NoSid == 0
SessionIds == 1 .. MaxSessions
StaleSid == MaxSessions + 1
ProtoKey == -1
HeaderValues == {NoSid, StaleSid, ProtoKey} \cup SessionIds

Methods == {"POST", "GET", "DELETE"}
Bodies(m) == IF m = "POST" THEN {"initialize", "other"} ELSE {"none"}

\* the transports object of startHttp: the session ids it has as own keys
\* (transport t is stored under the session id t that it generated), and the
\* number of StreamableHTTPServerTransport objects constructed so far
transports == req["http"].sessions
transportsMade == req["http"].made

\* what a property that every object inherits evaluates to
Inherited == -1

\* transports[sessionId] on the object literal {}: the transport stored under
\* the id, or else what Object.prototype has under that name
Lookup(sid) ==
  IF sid \in transports THEN sid
  ELSE IF sid = ProtoKey THEN Inherited
  ELSE Null

HttpResult(st, t) == [shape |-> "http", ok |-> st \in {"200", "routed"}, msg |-> <<>>,
                      id |-> t, status |-> st, data |-> "none", list |-> {}]

HttpReply(q, res) ==
  [op |-> q.op, id |-> q.id, hasId |-> q.hasId, tool |-> q.tool, arg |-> q.arg,
   inst |-> q.inst, resp |-> NoRes, res |-> res]

\* app.all("/mcp") up to its first suspension. A truthy transports[sessionId]
\* is used as the transport: handleRequest answers for the session (DELETE
\* closes it and onclose deletes the key), and a value that is no transport
\* makes the call throw. Without a session id a POST constructs a transport
\* and awaits server.connect. Everything else is answered with 400.
HttpRequest(r, sid, m, b) ==
  /\ req[r].pc = "idle"
  /\ sid \in HeaderValues /\ m \in Methods /\ b \in Bodies(m)
  /\ LET q == Begin("http", sid, sid # NoSid, m, b) IN
       IF sid # NoSid /\ Lookup(sid) # Null
       THEN IF Lookup(sid) \in SessionIds
            THEN /\ req' = [req EXCEPT !["http"].sessions =
                                IF m = "DELETE" THEN @ \ {sid} ELSE @]
                 /\ reply' = HttpReply(q, HttpResult("routed", Lookup(sid)))
            ELSE /\ req' = req
                 /\ reply' = HttpReply(q, HttpResult("500", 0))
       ELSE IF sid = NoSid /\ m = "POST"
       THEN /\ transportsMade < MaxSessions
            /\ req' = [req EXCEPT ![r] = [q EXCEPT !.pc = "h_connecting",
                                                   !.conn = transportsMade + 1],
                                   !["http"].made = @ + 1]
            /\ reply' = NoReply
       ELSE /\ req' = req
            /\ reply' = HttpReply(q, HttpResult("400", 0))
  /\ UNCHANGED <<registryVars, engineVars, poolVars, lastNavigated>>

\* server.connect(transport) resolved, transport.handleRequest answers: an
\* initialize request makes the transport generate its session id, and
\* onsessioninitialized stores it in the table; any other POST is refused by
\* the transport, which stays unregistered
HttpConnected(r) ==
  /\ req[r].pc = "h_connecting"
  /\ LET t == req[r].conn IN
       IF req[r].arg = "initialize"
       THEN /\ req' = [req EXCEPT ![r] = IdleReq, !["http"].sessions = @ \cup {t}]
            /\ reply' = HttpReply(req[r], HttpResult("200", t))
       ELSE /\ req' = [req EXCEPT ![r] = IdleReq]
            /\ reply' = HttpReply(req[r], HttpResult("400", 0))
  /\ UNCHANGED <<registryVars, engineVars, poolVars, lastNavigated>>

\* the HTTP endpoint alone, its requests running concurrently
NextHttp ==
  \E r \in Reqs :
    \/ \E sid \in HeaderValues, m \in Methods, b \in {"initialize", "other", "none"} :
          HttpRequest(r, sid, m, b)
    \/ HttpConnected(r)

SpecHttp == Init /\ [][NextHttp]_vars

\* the names setupTools registers with this.server.tool in src/src/index.ts
FacadeTools == {"list_instances", "list_tools", "call_tool", "check_health"}

\* the six operation names of the orchestrator-facing interface
Operations == FacadeTools \cup {"new_browser", "stop_browser"}

\* the instanceId argument left out
NoId == -1

\* a tools/call request to the facade of src/src/index.ts naming tool o with
\* instanceId i: the handler registered under that name runs; the handlers
\* of DockerManager callers that this facade does not register cannot be
\* reached through it
Facade(r, o, i) ==
  /\ o \in FacadeTools
  /\ \/ o = "list_instances" /\ i = NoId /\ ListInstances(r)
     \/ o = "list_tools" /\ i = NoId /\ AutoListTools(r)
     \/ o = "list_tools" /\ i # NoId /\ ListToolsStart(r, i)
     \/ o = "call_tool" /\ i # NoId /\ CallToolStart(r, i, "read", "none")
     \/ o = "check_health" /\ i # NoId /\ HealthStart(r, i)
     \/ o = "new_browser" /\ i = NoId /\ NewBrowser(r)
     \/ o = "stop_browser" /\ i # NoId /\ StopStart(r, i)

\* the orchestrator of src/src/index.ts from process start: requests to its
\* facade and the continuations of their handlers
NextFacade ==
  \E r \in Reqs :
    \/ \E o \in Operations, i \in Ids \cup {FakeId, NoId} : Facade(r, o, i)
    \/ Provision(r) \/ ListToolsProvisioned(r) \/ ListToolsRest(r)
    \/ CallToolRest(r)
    \/ \E h \in {"healthy", "unhealthy"} : HealthResult(r, h)

SpecFacade == Init /\ [][NextFacade]_vars

\* list_tools alone, with and without instanceId, all requests concurrent
NextListTools ==
  \E r \in Reqs :
    \/ AutoListTools(r) \/ Provision(r) \/ ListToolsProvisioned(r)
    \/ ListToolsById(r) \/ ListToolsRest(r)

SpecListTools == Init /\ [][NextListTools]_vars

\* call_tool requests on a provisioned instance whose sandbox sessions can die
NextCrash ==
  \/ \E r \in Reqs : CallToolRead(r) \/ CallToolRest(r)
  \/ \E k \in ConnRefs : ConnDies(k)

SpecCrash == InitProxy /\ [][NextCrash]_vars

\* createPlaywrightInstance next to stopInstance, the pending probes and
\* timers of the readiness loop being served by the event loop
NextReady ==
  \E r \in Reqs : NewBrowser(r) \/ Provision(r) \/ NewBrowserReady(r) \/ Stop(r)

\* a pending probe settles (AbortSignal.timeout bounds each fetch), the
\* sleep timer fires
ReadinessStep(r) == ProbeRetry(r) \/ ProbeTimeout(r) \/ NewBrowserReady(r)

SpecReady ==
  Init /\ [][NextReady]_vars /\ \A r \in Reqs : WF_vars(ReadinessStep(r))

\* the state in which a first new_browser has just registered instance 1
\* (container 1, started) and waits for its first readiness probe
InitWaiting ==
  /\ instances = {1}
  /\ status = [i \in Ids |-> IF i = 1 THEN "starting" ELSE "none"]
  /\ containerId = [i \in Ids |-> IF i = 1 THEN 1 ELSE 0]
  /\ nextId = 2
  /\ containers = [c \in Ctrs |-> IF c = 1 THEN "running" ELSE "none"]
  /\ nextCtr = 2
  /\ clients = [c \in ClientRefs |-> NoClient]
  /\ nextClient = 1
  /\ clientCache = [i \in Ids |-> Null]
  /\ conns = [c \in ConnRefs |-> NoConn]
  /\ nextConn = 1
  /\ lastNavigated = [i \in Ids |-> Blank]
  /\ req = [r \in Slots |->
             IF r = "r1"
             THEN [Begin("new_browser", 0, FALSE, "none", "none")
                     EXCEPT !.pc = "c_probe", !.inst = 1, !.ctr = 1, !.probes = 1]
             ELSE IdleReq]
  /\ reply = NoReply

\* the readiness loop and check_health probing while call_tool uses the
\* client cache
NextProbe ==
  \E r \in Reqs :
    \/ ProbeRetry(r) \/ ProbeTimeout(r) \/ NewBrowserReady(r)
    \/ Health(r)
    \/ CallToolRead(r) \/ CallToolRest(r)

SpecProbe == InitWaiting /\ [][NextProbe]_vars

\* ------------------------------------------------------------ properties
\* the connections that call_tool's cached clients opened for instance i
CallToolConns(i, states) ==
  {k \in ConnRefs : /\ conns[k].via = "call_tool"
                    /\ clients[conns[k].owner].inst = i
                    /\ conns[k].state \in states}

\* the connections of any client of instance i
ConnsOf(i, states) ==
  {k \in ConnRefs : /\ conns[k].owner # Null
                    /\ clients[conns[k].owner].inst = i
                    /\ conns[k].state \in states}

\* the PlaywrightClientStdio objects call_tool constructed for instance i
CallToolClients(i) ==
  {c \in ClientRefs : clients[c].inst = i /\ \E k \in ConnRefs : conns[k].owner = c /\ conns[k].via = "call_tool"}

\* this step invokes operation o with instanceId i (the handler may return
\* in the same step, which leaves every slot as it was)
Invokes(o, i) ==
  \/ \E r \in Reqs : /\ req[r].pc = "idle" /\ req'[r].pc # "idle"
                      /\ req'[r].op = o /\ req'[r].hasId /\ req'[r].id = i
  \/ req' = req /\ reply'.op = o /\ reply'.hasId /\ reply'.id = i

\* this step invokes createPlaywrightInstance (new_browser, or list_tools
\* without an instanceId)
InvokesCreate ==
  \/ \E r \in Reqs : req[r].pc = "idle" /\ req'[r].pc # "idle"
                      /\ req'[r].op \in {"new_browser", "list_tools"} /\ ~req'[r].hasId
  \/ req' = req /\ reply'.op \in {"new_browser", "list_tools"} /\ ~reply'.hasId

NotFound(res) == ~res.ok /\ Contains(res.msg, "Instance not found")

\* the engine has stopped the container of instance i: a stopInstance(i) succeeded
Stopped(i) == containerId[i] # 0 /\ containers[containerId[i]] = "stopped"

\* C1: with the call_tool requests of an instance issued one after the other,
\* the cached client of each instance establishes at most one connection, and
\* never has a second one open or being opened next to it
C1_ConnectedAtMostOnce ==
  \A i \in Ids : /\ Cardinality(CallToolConns(i, {"open", "closed"})) <= 1
                 /\ Cardinality(CallToolConns(i, {"connecting", "open"})) <= 1

\* a later call_tool is being served on the connection an earlier one opened
\* and navigated on
C1_Witness ==
  \E r \in Reqs : /\ req[r].pc = "ct_calling" /\ req[r].inst = 1
                  /\ conns[req[r].conn].state = "open"
                  /\ conns[req[r].conn].url = "A"
                  /\ \E k \in ConnRefs : conns[k].via = "call_tool" /\ conns[k].state = "failed"

\* C2: with sequential call_tool requests, every page the sandbox reports to
\* a read is the page the instance's last navigate went to
C2_ReadSeesLastNavigate ==
  (reply.op = "call_tool" /\ reply.tool = "read" /\ reply.res.shape = "raw" /\ reply.res.ok)
    => reply.res.data = lastNavigated[reply.inst]

\* a read answered with the page an earlier call navigated to
C2_Witness ==
  /\ reply.op = "call_tool" /\ reply.tool = "read"
  /\ reply.res.shape = "raw" /\ reply.res.ok /\ reply.res.data = "B"

\* C3: under concurrent call_tool requests each instance has exactly one
\* session client and that client opens exactly one connection
C3_AtomicGetOrCreate ==
  \A i \in Ids : /\ Cardinality(CallToolClients(i)) <= 1
                 /\ Cardinality(CallToolConns(i, {"connecting", "open", "closed"})) <= 1

\* C4: at most one connection per instance id is open, whichever facade
\* operation opened it
C4_OneOpenConnectionPerInstance ==
  \A i \in Ids : Cardinality(ConnsOf(i, {"open"})) <= 1

\* C5: every open connection of an instance reaches the sandbox the
\* provisioner created and registered for that instance
C5_ConnectionReachesRegisteredSandbox ==
  \A k \in ConnRefs :
    conns[k].state = "open" => ConnTarget(k) = InstanceSandbox(clients[conns[k].owner].inst)

C7_UnknownInstanceRejected ==
  [][\A i \in Ids \cup {FakeId} :
       (Invokes("call_tool", i) /\ i \notin instances) =>
         /\ req' = req
         /\ reply'.op = "call_tool" /\ reply'.id = i /\ NotFound(reply'.res)
         /\ UNCHANGED <<registryVars, engineVars, poolVars>>]_vars

\* call_tool was refused for an id that was never issued
C7_Witness ==
  reply.op = "call_tool" /\ reply.id = FakeId /\ NotFound(reply.res)

\* C8: the registry never holds more than maxInstances instances
C8_RegistryWithinCap == Cardinality(instances) <= maxInstances

\* C9: createPlaywrightInstance invoked on a full registry returns the
\* "Maximum instances limit reached" error in the same step, without a pull,
\* a container create or start, and leaves the registry as it is
C9_FullRegistryRejectsCreate ==
  [][(InvokesCreate /\ Cardinality(instances) >= maxInstances) =>
       /\ req' = req
       /\ ~reply'.res.ok /\ Contains(reply'.res.msg, "Maximum instances limit reached")
       /\ UNCHANGED <<registryVars, engineVars>>]_vars

\* new_browser was refused while the registry held exactly maxInstances entries
C9_Witness ==
  /\ reply.op = "new_browser"
  /\ Contains(reply.res.msg, "Maximum instances limit reached")
  /\ Cardinality(instances) = maxInstances

\* C10: once stopInstance(i) has succeeded, i is not in the registry any more
\* and every list_tools, call_tool, check_health or stop_browser invoked on i
\* from then on returns "Instance not found" in the same step
C10_StoppedInstanceIsGone ==
  [][\A i \in Ids :
       /\ Stopped(i)' => i \notin instances'
       /\ \A o \in {"list_tools", "call_tool", "check_health", "stop_browser"} :
            (Stopped(i) /\ Invokes(o, i)) =>
               req' = req /\ reply'.op = o /\ NotFound(reply'.res)]_vars

\* a stop_browser on an instance that was stopped before is refused
C10_Witness ==
  /\ reply.op = "stop_browser" /\ reply.id \in Ids /\ Stopped(reply.id)
  /\ NotFound(reply.res) /\ getAllInstances = {}

\* C11: a stop_browser on an instance that an earlier stopInstance has stopped
\* and removed returns the "Instance not found" error object in the same step
\* and changes nothing
C11_SecondStopRejected ==
  [][\A i \in Ids :
       (Stopped(i) /\ Invokes("stop_browser", i)) =>
          /\ req' = req
          /\ reply'.res.shape = "json" /\ NotFound(reply'.res)
          /\ UNCHANGED <<registryVars, engineVars, poolVars, lastNavigated>>]_vars

\* the second stop_browser of an instance was answered with the error while
\* the first one's result ("stopped") is still on the instance object
C11_Witness ==
  /\ reply.op = "stop_browser" /\ reply.id \in Ids
  /\ status[reply.id] = "stopped" /\ Stopped(reply.id)
  /\ reply.res.shape = "json" /\ NotFound(reply.res)

\* this step of the shutdown closure calls dockerManager.cleanup()
CleanupCalled ==
  /\ req["shutdown"].pc \in {"idle", "sd_disconnecting"}
  /\ req'["shutdown"].pc \in {"sd_cleanup", "sd_closing"}

\* the clients in the cache
Cached == {c \in ClientRefs : \E i \in Ids : clientCache[i] = c}

\* C12: shutdown calls cleanup() (which issues every instance stop) only when
\* the loop has passed every cached client (each one is disconnected, or was
\* passed earlier in the loop) and with the cache cleared in the same step; no
\* shutdown step before that marks an instance as stopping; server.close() is
\* awaited only with every stop settled and the registry cleared; the process
\* exits only after server.close() settled
C12_ShutdownOrder ==
  [][/\ CleanupCalled =>
          /\ \A c \in Cached : clients'[c].mcpClient = Null \/ c < req["shutdown"].client
          /\ \A i \in Ids : clientCache'[i] = Null
          /\ req'["shutdown"].stops = instances
     /\ \A i \in Ids : (status'[i] = "stopping" /\ status[i] # "stopping") => CleanupCalled
     /\ (req'["shutdown"].pc = "sd_closing" /\ req["shutdown"].pc # "sd_closing") =>
          /\ req'["shutdown"].stops = {} /\ instances' = {}
          /\ req["shutdown"].pc = "sd_cleanup" \/ CleanupCalled
     /\ (Exited' /\ ~Exited) => req["shutdown"].pc = "sd_closing"]_vars

\* the process exited after shutdown closed the connections of two cached
\* clients and stopped both instances
C12_Witness ==
  /\ Exited
  /\ \A k \in {1, 2} : conns[k].state = "closed" /\ conns[k].via = "call_tool"
  /\ conns[1].owner # conns[2].owner
  /\ \A i \in {1, 2} : status[i] = "stopped"

\* C13: once shutdown has completed (process.exit(0), no stop refused by the
\* engine) the registry and the cache are empty, no container the provisioner
\* created is running and no connection is open or being opened
C13_CleanAfterShutdown ==
  (req["shutdown"].pc = "exit0" /\ \A i \in Ids : status[i] # "error") =>
     /\ instances = {}
     /\ \A i \in Ids : clientCache[i] = Null
     /\ \A c \in Ctrs : containers[c] # "running"
     /\ \A k \in ConnRefs : conns[k].state \notin {"connecting", "open"}

\* C14: a create that fell back to the docker CLI and became ready reports
\* its instance as running, and a create whose primary and fallback path both
\* failed leaves its instance with status "error"
C14_FallbackOutcome ==
  /\ (reply.op \in {"new_browser", "list_tools"} /\ ~reply.hasId /\ reply.res.ok) =>
        reply.res.id \in instances /\ status[reply.res.id] = "running"
  /\ (reply.op \in {"new_browser", "list_tools"} /\ ~reply.hasId
        /\ Contains(reply.res.msg, "createContainer failed")) =>
        reply.inst \in Ids /\ status[reply.inst] = "error"

\* C15: within a create request the primary path is entered once (after the
\* pull), the fallback is entered only by the failure of that primary attempt,
\* which created nothing; a successful primary goes straight on to start its
\* container; the fallback either hands its running container on to start or
\* ends the request with the error, nothing created and nothing registered
C15_FallbackOnceAfterPrimary ==
  [][\A r \in Reqs :
       /\ (req'[r].pc = "c_pull" /\ req[r].pc # "c_pull") => req[r].pc = "idle"
       /\ (req'[r].pc = "c_create" /\ req[r].pc # "c_create") => req[r].pc = "c_pull"
       /\ (req'[r].pc = "c_fallback" /\ req[r].pc # "c_fallback") =>
             req[r].pc = "c_create" /\ UNCHANGED engineVars
       /\ (req[r].pc = "c_create" /\ req'[r].pc \notin {"c_create", "c_fallback"}) =>
             /\ req'[r].pc = "c_start" /\ req'[r].ctr = nextCtr
             /\ containers'[nextCtr] = "created" /\ nextCtr' = nextCtr + 1
       /\ (req[r].pc = "c_fallback" /\ req'[r].pc # "c_fallback") =>
             \/ /\ req'[r].pc = "c_start" /\ req'[r].ctr = nextCtr
                /\ containers'[nextCtr] = "running" /\ nextCtr' = nextCtr + 1
             \/ /\ req'[r].pc = "idle"
                /\ ~reply'.res.ok /\ Contains(reply'.res.msg, "Failed to create container")
                /\ UNCHANGED <<registryVars, engineVars>>]_vars

\* a new_browser reported the failure of both paths while the container that
\* another request got from the fallback is running
C15_Witness ==
  /\ reply.op = "new_browser" /\ Contains(reply.res.msg, "createContainer failed")
  /\ nextCtr = 2 /\ containers[1] = "running" /\ instances = {}

C20_FacadeOperations ==
  (\E r \in Reqs : req[r].pc = "idle") =>
     /\ \A o \in Operations : ENABLED (\E r \in Reqs, i \in Ids \cup {FakeId, NoId} : Facade(r, o, i))
     /\ \A i \in instances : ENABLED (\E r \in Reqs : Facade(r, "stop_browser", i))

\* C17: the step in which a call_tool returns an error (its own, or the
\* sandbox's isError result) leaves the registry, every status and the client
\* cache as they are, the cached client of the instance it was called on still
\* in place; and no step of a call_tool changes the registry or a status
C17_FailedCallKeepsInstance ==
  [][/\ (reply'.op = "call_tool" /\ ~reply'.res.ok) =>
          /\ UNCHANGED <<instances, status, clientCache>>
          /\ reply'.inst # 0 => clientCache'[reply'.inst] # Null
     /\ \A r \in Reqs : (req'[r] # req[r] /\ "call_tool" \in {req[r].op, req'[r].op}) =>
                             UNCHANGED registryVars]_vars

\* a call_tool timed out on a running instance, which is still registered,
\* running and cached
C17_Witness ==
  /\ reply.op = "call_tool" /\ Contains(reply.res.msg, "Failed to call tool")
  /\ reply.inst \in instances /\ status[reply.inst] = "running"
  /\ clientCache[reply.inst] # Null /\ clients[clientCache[reply.inst]].isConnected

\* C18: list_tools, check_health and stop_browser invoked with an instanceId
\* that is not in the registry return {success: false, error} with "Instance
\* not found" in the same step and change neither the registry, nor the
\* engine, nor the clients and connections
C18_UnknownInstanceReported ==
  [][\A i \in Ids \cup {FakeId}, o \in {"list_tools", "check_health", "stop_browser"} :
       (Invokes(o, i) /\ i \notin instances) =>
          /\ req' = req
          /\ reply'.op = o /\ reply'.id = i
          /\ reply'.res.shape = "json" /\ NotFound(reply'.res)
          /\ UNCHANGED <<registryVars, engineVars, poolVars>>]_vars

\* list_tools was refused for an id that was never issued, instance 1 being
\* registered all along
C18_Witness ==
  /\ reply.op = "list_tools" /\ reply.hasId /\ reply.id = FakeId
  /\ reply.res.shape = "json" /\ NotFound(reply.res)
  /\ instances = {1} /\ nextConn = 1

\* C19: the response of a call_tool on an unknown instance is a JSON body
\* {success: false, error} whose error contains "Instance not found"
C19_CallToolNotFoundIsJson ==
  (reply.op = "call_tool" /\ reply.id \notin instances /\ reply.inst = 0) =>
     reply.res.shape = "json" /\ NotFound(reply.res)

\* C21: list_instances returns the instances that are in the registry when
\* it is called, each with its status, and count is their number; as long as
\* nothing has been created it reports zero instances
C21_ListMatchesRegistry ==
  reply.op = "list_instances" =>
     /\ reply.res.ok
     /\ reply.res.list = {<<i, status[i]>> : i \in instances}
     /\ reply.res.id = Cardinality(instances)
     /\ nextId = 1 => reply.res.id = 0 /\ reply.res.list = {}

\* list_instances reported the one instance that was created after an
\* earlier one had been stopped and removed
C21_Witness ==
  /\ reply.op = "list_instances" /\ reply.res.id = 1
  /\ Stopped(1) /\ instances = {2}

\* C22: every instance id that has a session client in the cache is in the
\* registry
C22_CachedImpliesRegistered ==
  \A i \in Ids : clientCache[i] # Null => i \in instances

\* C23: after a call_tool failed because the connection could not be opened,
\* no session client of that instance is in the cache
C23_FailedConnectNotCached ==
  (reply.op = "call_tool" /\ Contains(reply.res.msg, "Failed to connect")) =>
     clientCache[reply.inst] = Null

\* C24: once a call_tool has failed on the connection of its cached client
\* because that connection is dead, the client is evicted or no longer marked
\* connected, so that the next call opens a new connection
C24_DeadConnectionEvicted ==
  \A i \in Ids :
    (/\ reply.op = "call_tool" /\ reply.inst = i
     /\ Contains(reply.res.msg, "Failed to call tool")
     /\ clientCache[i] # Null
     /\ clients[clientCache[i]].mcpClient # Null
     /\ conns[clients[clientCache[i]].mcpClient].state = "dead")
      => ~clients[clientCache[i]].isConnected

\* C25: at most one tool call is in flight on a sandbox session: no two
\* call_tool requests wait for a response on the same connection
C25_OneCallInFlight ==
  \A r1, r2 \in Reqs :
    (/\ req[r1].pc = "ct_calling" /\ req[r2].pc = "ct_calling"
     /\ req[r1].conn = req[r2].conn) => r1 = r2

\* C26: a status that is "error" or "stopping" never becomes "running"
C26_NoReturnToRunning ==
  [][\A i \in Ids : status[i] \in {"error", "stopping"} => status'[i] # "running"]_vars

\* request r is inside waitForContainerReady
InReadinessWait(r) == req[r].pc \in {"c_probe", "c_wait"}

\* this step ends the readiness wait of instance i with a healthy probe
HealthyProbe(i) ==
  \E r \in Reqs : /\ req[r].pc = "c_probe" /\ req[r].inst = i
                   /\ containers[req[r].ctr] = "running"
                   /\ ~InReadinessWait(r)'

\* stopInstance has been called on instance i
StopBegun(i) == status[i] \in {"stopping", "stopped", "error"}

StartupTimeout ==
  /\ reply.op \in {"new_browser", "list_tools"} /\ ~reply.hasId
  /\ Contains(reply.res.msg, "Container failed to become healthy")

\* instance i is registered as "starting" and nobody waits for it any more
Abandoned(i) ==
  /\ i \in instances /\ status[i] = "starting"
  /\ \A r \in Reqs : ~(InReadinessWait(r) /\ req[r].inst = i)

\* C28: the startup timeout is reported as an error and leaves the registry
\* as it is; the record it leaves behind stays registered as "starting",
\* counted by the cap, until a stopInstance takes it
C28_TimeoutKeepsRecord ==
  [][/\ StartupTimeout' =>
          /\ ~reply'.res.ok
          /\ <<instances, status, containerId>>' = <<instances, status, containerId>>
          /\ \A i \in Ids : (reply'.inst = i /\ ~StopBegun(i)) => Abandoned(i)'
     /\ \A i \in Ids : Abandoned(i) =>
          /\ i \in instances'
          /\ \/ status'[i] = "starting"
             \/ status'[i] = "stopping" /\ Invokes("stop_browser", i)]_vars

\* a create is turned away by the cap that the record of a timed-out
\* instance fills
C28_Witness ==
  /\ Abandoned(1) /\ instances = {1}
  /\ reply.op = "new_browser"
  /\ Contains(reply.res.msg, "Maximum instances limit reached")

\* C29: a request that has entered waitForContainerReady leaves it
C29_ReadinessWaitTerminates ==
  \A r \in Reqs : InReadinessWait(r) ~> ~InReadinessWait(r)

\* the wait ended with the startup-timeout error after the instance had been
\* stopped under it
C29_Witness ==
  /\ StartupTimeout /\ reply.inst = 1
  /\ Stopped(1) /\ 1 \notin instances

\* this step is a probe of getContainerHealth settling: inside the readiness
\* loop (next probe, healthy return, timeout) or for check_health
ProbeStep ==
  \E r \in Reqs :
    \/ InReadinessWait(r) /\ req'[r] # req[r]
    \/ req[r].pc = "ch_probe" /\ req'[r] # req[r]

\* C30: no probe step changes the client cache, a client or a connection
C30_ProbeLeavesPool ==
  [][ProbeStep => poolVars' = poolVars]_vars

\* a probe of the readiness loop was repeated while a client is cached and
\* connected
C30_Witness ==
  /\ \E r \in Reqs : req[r].pc = "c_probe" /\ req[r].probes = 2
  /\ \E i \in Ids : /\ clientCache[i] # Null
                     /\ clients[clientCache[i]].isConnected

\* the response of the step just taken is stopInstance's rethrown error
StopFailed ==
  /\ reply.op = "stop_browser"
  /\ Contains(reply.res.msg, "Failed to stop container")

\* C31: when the engine refuses the stop, the caller gets the error, the
\* instance's status is "error" and the step removes nothing from the registry
C31_FailedStopKeepsInstance ==
  [][StopFailed' =>
       /\ ~reply'.res.ok
       /\ status'[reply'.inst] = "error"
       /\ instances' = instances]_vars

\* a refused stop left instance 1 registered with status "error"
C31_Witness ==
  /\ StopFailed /\ reply.inst = 1
  /\ 1 \in instances /\ status[1] = "error"

\* C32: cleanup() does not throw (shutdown goes on to server.close(), not to
\* its catch) and when it returns the registry is empty and every stop it
\* issued has settled
C32_CleanupEmptiesRegistry ==
  [][/\ req["shutdown"].pc = "sd_cleanup" =>
          req'["shutdown"].pc \in {"sd_cleanup", "sd_closing"}
     /\ (req["shutdown"].pc # "sd_closing" /\ req'["shutdown"].pc = "sd_closing") =>
          /\ instances' = {}
          /\ req'["shutdown"].stops = {}]_vars

\* cleanup returned with an empty registry although the engine refused a
\* stop, and an instance registered during the cleanup was dropped as well
C32_Witness ==
  /\ req["shutdown"].pc = "sd_closing" /\ instances = {}
  /\ status[1] = "error"
  /\ status[2] = "starting"

C34_NoStoppedEntry ==
  \A i \in instances : status[i] # "stopped"

\* instance 1 was stopped by stop_browser while instance 2 is registered and
\* the cleanup of a shutdown is stopping it
C34_Witness ==
  /\ status[1] = "stopped" /\ 1 \notin instances
  /\ 2 \in instances /\ status[2] = "stopping"
  /\ req["shutdown"].pc = "sd_cleanup"

\* C35: every container that the provisioner created and that was not
\* stopped belongs to a registered instance, or to a create that is about to
\* start and register it
C35_NoOrphanSandbox ==
  \A c \in Ctrs : containers[c] \in {"created", "running"} =>
     \/ \E i \in instances : containerId[i] = c
     \/ \E r \in Reqs : req[r].pc = "c_start" /\ req[r].ctr = c

\* C36: a client that is marked connected holds an MCP client to send on
C36_ConnectedHasHandle ==
  \A c \in ClientRefs : clients[c].isConnected => clients[c].mcpClient # Null

\* client c has no MCP client, no transport and is not marked connected
Disconnected(c) ==
  /\ clients[c].mcpClient = Null
  /\ clients[c].transport = Null
  /\ ~clients[c].isConnected

\* this step takes the shutdown loop past the disconnect() of cached client c:
\* the close() it awaited for c settles, or c had nothing to close
DisconnectReturns(c) ==
  /\ c \in Cached
  /\ req'["shutdown"] # req["shutdown"]
  /\ req["shutdown"].pc \in {"idle", "sd_disconnecting"}
  /\ c >= req["shutdown"].client
  /\ CleanupCalled \/ c < req'["shutdown"].client

ShutdownStage(pc) ==
  CASE pc = "idle" -> 0
    [] pc = "sd_disconnecting" -> 1
    [] pc = "sd_cleanup" -> 2
    [] pc = "sd_closing" -> 3
    [] OTHER -> 4

\* C38: a trigger that arrives while shutdown is under way changes nothing,
\* and shutdown, once begun, only moves forward: the disconnect loop goes to
\* later clients only, the set of stops that cleanup() awaits only shrinks,
\* and no stage is entered a second time
C38_ShutdownOnce ==
  [][/\ reply'.op = "shutdown" =>
          /\ req["shutdown"].pc # "idle"
          /\ <<registryVars, engineVars, poolVars, req>>' =
                <<registryVars, engineVars, poolVars, req>>
     /\ (req["shutdown"].pc # "idle" /\ req'["shutdown"] # req["shutdown"]) =>
          /\ ShutdownStage(req'["shutdown"].pc) >= ShutdownStage(req["shutdown"].pc)
          /\ req'["shutdown"].pc = "sd_disconnecting" =>
                req'["shutdown"].client > req["shutdown"].client
          /\ (req["shutdown"].pc = "sd_cleanup" /\ req'["shutdown"].pc = "sd_cleanup") =>
                /\ req'["shutdown"].stops \subseteq req["shutdown"].stops
                /\ req'["shutdown"].stops # req["shutdown"].stops
          /\ req["shutdown"].pc \in {"sd_closing", "exit0", "exit1"} =>
                req'["shutdown"].pc \in {"exit0", "exit1"}]_vars

\* a second trigger arrived and was ignored while cleanup() was waiting for
\* the last stop, the first one having settled
C38_Witness ==
  /\ reply.op = "shutdown"
  /\ req["shutdown"].pc = "sd_cleanup"
  /\ Cardinality(req["shutdown"].stops) = 1
  /\ \E i \in Ids : status[i] = "stopped"

\* the /mcp handler answers, in this step, the request that arrives in it
AnsweredAtOnce ==
  /\ reply'.op = "http"
  /\ \A r \in Reqs : req'[r] = req[r]

\* C39: a request whose session id is not in the table, other than a POST
\* without session id, is answered 400 and neither constructs nor registers
\* a transport; only a POST without session id goes on to open a session; a
\* request whose session id is in the table is handed to the transport
\* stored under it, and constructs none
C39_SessionTable ==
  [][/\ (AnsweredAtOnce /\ reply'.id \notin transports) =>
          /\ reply'.res.status = "400"
          /\ transports' = transports
          /\ transportsMade' = transportsMade
     /\ (AnsweredAtOnce /\ reply'.id \in transports) =>
          /\ reply'.res.status = "routed"
          /\ reply'.res.id = reply'.id
          /\ transportsMade' = transportsMade
     /\ \A r \in Reqs : (req[r].pc = "idle" /\ req'[r].pc = "h_connecting") =>
          /\ ~req'[r].hasId /\ req'[r].tool = "POST"
     /\ transportsMade' # transportsMade =>
          \E r \in Reqs : req[r].pc = "idle" /\ req'[r].pc = "h_connecting"]_vars

====
